---------------------------- MODULE Spec2Model ----------------------------
(***************************************************************************)
(* Model of GateFuturesTrader (enhanced_futures_trader.py): the spread     *)
(* trading session driven by inbound websocket frames, its heartbeat       *)
(* thread, and the pure decision functions.                                *)
(*                                                                         *)
(* Prices are Decimal values in the program.  Here a price is an integer   *)
(* number of hundredths (10000 stands for 100.00), a spread threshold is   *)
(* an integer number of ten-thousandths (5 stands for 0.0005), and the     *)
(* result of a Decimal division is an exact reduced fraction <<n, d>>.     *)
(***************************************************************************)
EXTENDS Integers, Sequences, FiniteSets, TLC

\* ------------------------------------------------------------------ bounds
MaxTradesBound == 2      \* max_trades is drawn from 1..MaxTradesBound
MaxAmount == 1           \* trade_amount is drawn from 1..MaxAmount
MaxFrameLen == 1         \* tickers carried by one futures.tickers frame

\* self.contracts, and an instrument the session does not track
Contracts == {"c1", "c2"}
Untracked == "c9"

\* unit of the spread threshold: 5 / ThresholdScale = 0.0005
ThresholdScale == 10000

\* inputs of the session: what a ticker event may carry (bid and ask are
\* optional keys, <<>> when the venue omits them).  last = 100.00 alone gives
\* bid 99.99 and ask 100.01; bid = 99.90 is outside a 0.05% threshold of
\* 100.00; last = 0 with an ask is a quote without a last trade.
TickerShapes ==
  { [last |-> 10000, bid |-> <<>>,     ask |-> <<>>],
    [last |-> 10000, bid |-> <<9990>>, ask |-> <<>>],
    [last |-> 0,     bid |-> <<>>,     ask |-> <<10001>>],
    [last |-> 0,     bid |-> <<>>,     ask |-> <<>>] }
Thresholds == {5}

\* inputs of the function harness
FnEntryVals == {-10000, 0, 10000}
FnBidVals == {-5, 0, 9990, 9995, 10000, 10005, 10010}
FnAskVals == {-1, 0, 10001}
FnThresholds == {5, 10, 100, 5000}

VARIABLES
  trade_amount,       \* self.trade_amount
  max_trades,         \* self.max_trades
  spread_threshold,   \* self.spread_threshold, in 1/ThresholdScale
  current_position,   \* self.current_position: dict contract -> position
  trade_count,        \* self.trade_count
  completed_trades,   \* self.completed_trades
  is_running,         \* self.is_running
  event,              \* self.event (threading.Event): TRUE when set
  tickers,            \* self.tickers: dict contract -> ticker
  sock,               \* self.ws / self.ws.sock: "idle", "up", "broken", "none"
  closeDelivered,     \* on_close has been called back
  hb,                 \* heartbeat thread: "off", "wait", "pinged", "exit"
  sent,               \* frames handed to the socket by the last step
  lastOp,             \* the handler the last step ran
  arg,                \* harness: arguments of the last call
  ret,                \* harness: value returned by the last call
  USE_MOCK_DATA,          \* 1105.py: the price source is the mock sequence
  monitor_is_running,     \* 1105.py: global is_running (9:00-18:00 switch)
  is_paused_due_to_risk,  \* 1105.py: the risk-pause flag
  price_history,          \* 1105.py: deque(maxlen=3) of the fetched prices
  mock_price_iterator     \* 1105.py: index of the next mock price

vars == <<trade_amount, max_trades, spread_threshold, current_position,
          trade_count, completed_trades, is_running, event, tickers, sock,
          closeDelivered, hb, sent, lastOp, arg, ret, USE_MOCK_DATA,
          monitor_is_running, is_paused_due_to_risk, price_history,
          mock_price_iterator>>

\* the globals of the price risk monitor (src/1105.py), a separate script
monitor == <<USE_MOCK_DATA, monitor_is_running, is_paused_due_to_risk,
             price_history, mock_price_iterator>>

\* their values when the module is loaded
MonitorLoaded ==
  /\ USE_MOCK_DATA = FALSE
  /\ monitor_is_running = FALSE
  /\ is_paused_due_to_risk = FALSE
  /\ price_history = <<>>
  /\ mock_price_iterator = 1

config == <<trade_amount, max_trades, spread_threshold>>

\* --------------------------------------------------------------- Decimals
Abs(x) == IF x < 0 THEN -x ELSE x

RECURSIVE Gcd(_, _)
Gcd(a, b) == IF b = 0 THEN a ELSE Gcd(b, a % b)

\* the reduced fraction n / d, for n >= 0 and d > 0
Frac(n, d) == LET g == Gcd(n, d) IN <<n \div g, d \div g>>

FracLE(x, y) == x[1] * y[2] <= y[1] * x[2]

\* Decimal('1.0'), the value returned for an invalid entry price
SentinelSpread == <<1, 1>>

\* self.spread_threshold * Decimal('100')
ThresholdPct(th) == Frac(th * 100, ThresholdScale)

\* last_price * Decimal('0.9999') and last_price * Decimal('1.0001');
\* exact for the multiples of 100.00 that LastVals holds
DefaultBid(last) == (last * 9999) \div 10000
DefaultAsk(last) == (last * 10001) \div 10000

\* --------------------------------------------------------------- dicts
EmptyDict == <<>>
Put(d, k, v) == [x \in (DOMAIN d) \cup {k} |-> IF x = k THEN v ELSE d[x]]
Del(d, k) == [x \in (DOMAIN d) \ {k} |-> d[x]]

\* the fields of self that the handlers read and write, with the socket
Self == [current_position |-> current_position, trade_count |-> trade_count,
         completed_trades |-> completed_trades, is_running |-> is_running,
         event |-> event, tickers |-> tickers, sock |-> sock, sent |-> <<>>]

NoPayload == [contract |-> "", size |-> 0, price |-> 0, tif |-> "",
              close |-> FALSE, reduce_only |-> FALSE, held |-> FALSE]

\* ---------------------------------------------------------- wire requests
\* _request: builds the envelope, adds the auth block when asked to, and
\* hands it to ws.send, which raises unless the socket is connected.
\* _request adding the auth block to every envelope
request_signall(s, channel, ev, payload, auth_required) ==
  IF s.sock = "up"
  THEN [st |-> [s EXCEPT !.sent = Append(@, [channel |-> channel, event |-> ev,
                                             payload |-> payload,
                                             auth |-> TRUE])],
        raised |-> FALSE]
  ELSE [st |-> s, raised |-> TRUE]

request(s, channel, ev, payload, auth_required) ==
  IF s.sock = "up"
  THEN [st |-> [s EXCEPT !.sent = Append(@, [channel |-> channel, event |-> ev,
                                             payload |-> payload,
                                             auth |-> auth_required])],
        raised |-> FALSE]
  ELSE [st |-> s, raised |-> TRUE]

subscribe(s, channel, payload, auth_required) ==
  request(s, channel, "subscribe", payload, auth_required)

\* ------------------------------------------------------ decision functions
calculate_spread_percentage(current_price, entry_price) ==
  IF entry_price <= 0
  THEN SentinelSpread
  ELSE Frac(Abs(current_price - entry_price) * 100, entry_price)

\* should_place_buy_order without the position check
should_place_buy_order_nohold(s, contract) ==
  IF s.trade_count >= max_trades
  THEN [ok |-> FALSE, reason |-> "max trades reached"]
  ELSE IF contract \notin DOMAIN s.tickers
  THEN [ok |-> FALSE, reason |-> "no price data"]
  ELSE IF s.tickers[contract].ask <= 0
  THEN [ok |-> FALSE, reason |-> "invalid ask"]
  ELSE [ok |-> TRUE, reason |-> "can buy"]

\* should_place_buy_order without the ask check
should_place_buy_order_noask(s, contract) ==
  IF contract \in DOMAIN s.current_position
     /\ s.current_position[contract].size > 0
  THEN [ok |-> FALSE, reason |-> "holding"]
  ELSE IF s.trade_count >= max_trades
  THEN [ok |-> FALSE, reason |-> "max trades reached"]
  ELSE IF contract \notin DOMAIN s.tickers
  THEN [ok |-> FALSE, reason |-> "no price data"]
  ELSE [ok |-> TRUE, reason |-> "can buy"]

should_place_buy_order(s, contract) ==
  IF contract \in DOMAIN s.current_position
     /\ s.current_position[contract].size > 0
  THEN [ok |-> FALSE, reason |-> "holding"]
  ELSE IF s.trade_count >= max_trades
  THEN [ok |-> FALSE, reason |-> "max trades reached"]
  ELSE IF contract \notin DOMAIN s.tickers
  THEN [ok |-> FALSE, reason |-> "no price data"]
  ELSE IF s.tickers[contract].ask <= 0
  THEN [ok |-> FALSE, reason |-> "invalid ask"]
  ELSE [ok |-> TRUE, reason |-> "can buy"]

\* should_place_sell_order with the boundary excluded (< for <=)
should_place_sell_order_strict(s, contract) ==
  IF contract \notin DOMAIN s.current_position
     \/ s.current_position[contract].size <= 0
  THEN [ok |-> FALSE, reason |-> "no position"]
  ELSE IF contract \notin DOMAIN s.tickers
  THEN [ok |-> FALSE, reason |-> "no price data"]
  ELSE IF s.tickers[contract].bid <= 0
  THEN [ok |-> FALSE, reason |-> "invalid bid"]
  ELSE IF ~FracLE(ThresholdPct(spread_threshold),
                  calculate_spread_percentage(
                    s.tickers[contract].bid,
                    s.current_position[contract].entry_price))
  THEN [ok |-> TRUE, reason |-> "can sell"]
  ELSE [ok |-> FALSE, reason |-> "waiting"]

should_place_sell_order(s, contract) ==
  IF contract \notin DOMAIN s.current_position
     \/ s.current_position[contract].size <= 0
  THEN [ok |-> FALSE, reason |-> "no position"]
  ELSE IF contract \notin DOMAIN s.tickers
  THEN [ok |-> FALSE, reason |-> "no price data"]
  ELSE IF s.tickers[contract].bid <= 0
  THEN [ok |-> FALSE, reason |-> "invalid bid"]
  ELSE IF FracLE(calculate_spread_percentage(
                   s.tickers[contract].bid,
                   s.current_position[contract].entry_price),
                 ThresholdPct(spread_threshold))
  THEN [ok |-> TRUE, reason |-> "can sell"]
  ELSE [ok |-> FALSE, reason |-> "waiting"]

\* ------------------------------------------------------------------ orders
\* place_futures_order reporting success when the send raised
place_futures_order_optimistic(s, contract, size, price, order_type, close) ==
  LET payload == [contract |-> contract, size |-> size, price |-> price,
                  tif |-> order_type, close |-> close, reduce_only |-> close,
                  held |-> (contract \in DOMAIN s.current_position
                            /\ s.current_position[contract].size > 0)]
      r == request(s, "futures.orders", "", payload, TRUE)
  IN [st |-> r.st, ok |-> TRUE]

\* place_futures_order setting the close flags on every order
place_futures_order_flags(s, contract, size, price, order_type, close) ==
  LET payload == [contract |-> contract, size |-> size, price |-> price,
                  tif |-> order_type, close |-> TRUE, reduce_only |-> TRUE,
                  held |-> (contract \in DOMAIN s.current_position
                            /\ s.current_position[contract].size > 0)]
      r == request(s, "futures.orders", "", payload, TRUE)
  IN [st |-> r.st, ok |-> ~r.raised]

\* place_futures_order: the order payload, sent authenticated on
\* futures.orders; any exception of the send is caught and reported as False.
\* held is an observation, not a payload key: whether a position was open
\* for the contract at the moment the order was handed to the socket.
place_futures_order(s, contract, size, price, order_type, close) ==
  LET payload == [contract |-> contract, size |-> size, price |-> price,
                  tif |-> order_type, close |-> close, reduce_only |-> close,
                  held |-> (contract \in DOMAIN s.current_position
                            /\ s.current_position[contract].size > 0)]
      r == request(s, "futures.orders", "", payload, TRUE)
  IN [st |-> r.st, ok |-> ~r.raised]

\* execute_buy_order counting the buy as a trade
execute_buy_order_counts(s, contract) ==
  LET r == place_futures_order(s, contract, trade_amount, 0, "IOC", FALSE)
      current_price == r.st.tickers[contract].last
  IN IF r.ok
     THEN IF contract \notin DOMAIN r.st.tickers
          THEN [st |-> r.st, ok |-> FALSE]
          ELSE IF current_price > 0
          THEN [st |-> [r.st EXCEPT !.current_position =
                          Put(@, contract, [size |-> trade_amount,
                                            entry_price |-> current_price]),
                          !.trade_count = @ + 1],
                ok |-> TRUE]
          ELSE [st |-> r.st, ok |-> FALSE]
     ELSE [st |-> r.st, ok |-> FALSE]

\* execute_buy_order recording the ask as the entry price
execute_buy_order_ask(s, contract) ==
  LET r == place_futures_order(s, contract, trade_amount, 0, "IOC", FALSE)
      current_price == r.st.tickers[contract].ask
  IN IF r.ok
     THEN IF contract \notin DOMAIN r.st.tickers
          THEN [st |-> r.st, ok |-> FALSE]
          ELSE IF current_price > 0
          THEN [st |-> [r.st EXCEPT !.current_position =
                          Put(@, contract, [size |-> trade_amount,
                                            entry_price |-> current_price])],
                ok |-> TRUE]
          ELSE [st |-> r.st, ok |-> FALSE]
     ELSE [st |-> r.st, ok |-> FALSE]

\* execute_buy_order recording the Position whatever the last price is
execute_buy_order_anyprice(s, contract) ==
  LET r == place_futures_order(s, contract, trade_amount, 0, "IOC", FALSE)
      current_price == r.st.tickers[contract].last
  IN IF r.ok
     THEN IF contract \notin DOMAIN r.st.tickers
          THEN [st |-> r.st, ok |-> FALSE]
          ELSE [st |-> [r.st EXCEPT !.current_position =
                          Put(@, contract, [size |-> trade_amount,
                                            entry_price |-> current_price])],
                ok |-> TRUE]
     ELSE [st |-> r.st, ok |-> FALSE]

execute_buy_order(s, contract) ==
  LET r == place_futures_order(s, contract, trade_amount, 0, "IOC", FALSE)
      current_price == r.st.tickers[contract].last
  IN IF r.ok
     THEN IF contract \notin DOMAIN r.st.tickers
          THEN [st |-> r.st, ok |-> FALSE]      \* KeyError, caught
          ELSE IF current_price > 0
          THEN [st |-> [r.st EXCEPT !.current_position =
                          Put(@, contract, [size |-> trade_amount,
                                            entry_price |-> current_price])],
                ok |-> TRUE]
          ELSE [st |-> r.st, ok |-> FALSE]
     ELSE [st |-> r.st, ok |-> FALSE]

\* stop_trading dropping every open Position
stop_trading_flatten(s) ==
  [s EXCEPT !.is_running = FALSE, !.event = TRUE, !.sock = "none",
            !.current_position = EmptyDict]

\* stop_trading flipping the running flag instead of clearing it
stop_trading_toggle(s) ==
  [s EXCEPT !.is_running = ~@, !.event = TRUE, !.sock = "none"]

stop_trading(s) ==
  [s EXCEPT !.is_running = FALSE, !.event = TRUE, !.sock = "none"]

\* execute_sell_order counting the close without recording it
execute_sell_order_norecord(s, contract) ==
  IF contract \notin DOMAIN s.current_position
  THEN [st |-> s, ok |-> FALSE]
  ELSE IF contract \notin DOMAIN s.tickers
  THEN [st |-> s, ok |-> FALSE]
  ELSE
    LET position == s.current_position[contract]
        current_price == s.tickers[contract].bid
    IN IF current_price <= 0
       THEN [st |-> s, ok |-> FALSE]
       ELSE
         LET r == place_futures_order(s, contract, -position.size, 0,
                                      "IOC", TRUE)
         IN IF r.ok
            THEN [st |-> [r.st EXCEPT
                            !.trade_count = @ + 1,
                            !.current_position = Del(@, contract)],
                  ok |-> TRUE]
            ELSE [st |-> r.st, ok |-> FALSE]

\* execute_sell_order closing at the last price instead of the bid
execute_sell_order_last(s, contract) ==
  IF contract \notin DOMAIN s.current_position
  THEN [st |-> s, ok |-> FALSE]
  ELSE IF contract \notin DOMAIN s.tickers
  THEN [st |-> s, ok |-> FALSE]
  ELSE
    LET position == s.current_position[contract]
        entry_price == position.entry_price
        current_price == s.tickers[contract].last
    IN IF current_price <= 0
       THEN [st |-> s, ok |-> FALSE]
       ELSE
         LET profit == (current_price - entry_price) * position.size
             profit_pct == calculate_spread_percentage(current_price,
                                                       entry_price)
             r == place_futures_order(s, contract, -position.size, 0,
                                      "IOC", TRUE)
             trade_record == [contract |-> contract,
                              entry_price |-> entry_price,
                              exit_price |-> current_price,
                              size |-> position.size,
                              profit |-> profit,
                              profit_pct |-> profit_pct]
         IN IF r.ok
            THEN [st |-> [r.st EXCEPT
                            !.completed_trades = Append(@, trade_record),
                            !.trade_count = @ + 1,
                            !.current_position = Del(@, contract)],
                  ok |-> TRUE]
            ELSE [st |-> r.st, ok |-> FALSE]

\* execute_sell_order sending a close order before it looks for a position
execute_sell_order_sendfirst(s, contract) ==
  IF contract \notin DOMAIN s.current_position
  THEN [st |-> place_futures_order(s, contract, -trade_amount, 0, "IOC",
                                   TRUE).st,
        ok |-> FALSE]
  ELSE IF contract \notin DOMAIN s.tickers
  THEN [st |-> s, ok |-> FALSE]
  ELSE
    LET position == s.current_position[contract]
        entry_price == position.entry_price
        current_price == s.tickers[contract].bid
    IN IF current_price <= 0
       THEN [st |-> s, ok |-> FALSE]
       ELSE
         LET profit == (current_price - entry_price) * position.size
             profit_pct == calculate_spread_percentage(current_price,
                                                       entry_price)
             r == place_futures_order(s, contract, -position.size, 0,
                                      "IOC", TRUE)
             trade_record == [contract |-> contract,
                              entry_price |-> entry_price,
                              exit_price |-> current_price,
                              size |-> position.size,
                              profit |-> profit,
                              profit_pct |-> profit_pct]
         IN IF r.ok
            THEN [st |-> [r.st EXCEPT
                            !.completed_trades = Append(@, trade_record),
                            !.trade_count = @ + 1,
                            !.current_position = Del(@, contract)],
                  ok |-> TRUE]
            ELSE [st |-> r.st, ok |-> FALSE]

execute_sell_order(s, contract) ==
  IF contract \notin DOMAIN s.current_position
  THEN [st |-> s, ok |-> FALSE]
  ELSE IF contract \notin DOMAIN s.tickers
  THEN [st |-> s, ok |-> FALSE]                 \* KeyError, caught
  ELSE
    LET position == s.current_position[contract]
        entry_price == position.entry_price
        current_price == s.tickers[contract].bid
    IN IF current_price <= 0
       THEN [st |-> s, ok |-> FALSE]
       ELSE
         \* float(x) of the record fields: the double nearest to a Decimal
         \* of at most 7 significant digits, named here by that Decimal
         LET profit == (current_price - entry_price) * position.size
             profit_pct == calculate_spread_percentage(current_price,
                                                       entry_price)
             r == place_futures_order(s, contract, -position.size, 0,
                                      "IOC", TRUE)
             trade_record == [contract |-> contract,
                              entry_price |-> entry_price,
                              exit_price |-> current_price,
                              size |-> position.size,
                              profit |-> profit,
                              profit_pct |-> profit_pct]
         IN IF r.ok
            THEN [st |-> [r.st EXCEPT
                            !.completed_trades = Append(@, trade_record),
                            !.trade_count = @ + 1,
                            !.current_position = Del(@, contract)],
                  ok |-> TRUE]
            ELSE [st |-> r.st, ok |-> FALSE]

\* check_trading_opportunities deciding the sell on the state before the buy
check_trading_opportunities_presell(s, contract) ==
  IF ~s.is_running
  THEN s
  ELSE
    LET s1 == IF should_place_buy_order(s, contract).ok
              THEN execute_buy_order(s, contract).st
              ELSE s
    IN IF should_place_sell_order(s, contract).ok
       THEN LET r == execute_sell_order(s1, contract)
            IN IF r.ok /\ r.st.trade_count >= max_trades
               THEN stop_trading(r.st)
               ELSE r.st
       ELSE s1

\* check_trading_opportunities stopping only past the budget (> for >=)
check_trading_opportunities_gt(s, contract) ==
  IF ~s.is_running
  THEN s
  ELSE
    LET s1 == IF should_place_buy_order(s, contract).ok
              THEN execute_buy_order(s, contract).st
              ELSE s
    IN IF should_place_sell_order(s1, contract).ok
       THEN LET r == execute_sell_order(s1, contract)
            IN IF r.ok /\ r.st.trade_count > max_trades
               THEN stop_trading(r.st)
               ELSE r.st
       ELSE s1

\* check_trading_opportunities that never stops the session
check_trading_opportunities_nostop(s, contract) ==
  IF ~s.is_running
  THEN s
  ELSE
    LET s1 == IF should_place_buy_order(s, contract).ok
              THEN execute_buy_order(s, contract).st
              ELSE s
    IN IF should_place_sell_order(s1, contract).ok
       THEN execute_sell_order(s1, contract).st
       ELSE s1

check_trading_opportunities(s, contract) ==
  IF ~s.is_running
  THEN s
  ELSE
    LET s1 == IF should_place_buy_order(s, contract).ok
              THEN execute_buy_order(s, contract).st
              ELSE s
    IN IF should_place_sell_order(s1, contract).ok
       THEN LET r == execute_sell_order(s1, contract)
            IN IF r.ok /\ r.st.trade_count >= max_trades
               THEN stop_trading(r.st)
               ELSE r.st
       ELSE s1

\* ----------------------------------------------------------------- tickers
\* the ticker events of the tracked contracts, and one of an untracked one
TickerEvents ==
  { [contract |-> c, last |-> sh.last, bid |-> sh.bid, ask |-> sh.ask] :
      c \in Contracts, sh \in TickerShapes }
  \cup { [contract |-> Untracked, last |-> 10000, bid |-> <<>>, ask |-> <<>>] }

\* the ticker entry with the last price itself as the default bid and ask
ParseTicker_nodefault(t) ==
  [last |-> t.last,
   bid |-> IF t.bid = <<>> THEN t.last ELSE t.bid[1],
   ask |-> IF t.ask = <<>> THEN t.last ELSE t.ask[1]]

ParseTicker(t) ==
  [last |-> t.last,
   bid |-> IF t.bid = <<>> THEN DefaultBid(t.last) ELSE t.bid[1],
   ask |-> IF t.ask = <<>> THEN DefaultAsk(t.last) ELSE t.ask[1]]

\* on_ticker_message without the membership test on self.contracts
RECURSIVE on_ticker_message_all(_, _)
on_ticker_message_all(s, data) ==
  IF data = <<>>
  THEN s
  ELSE LET ticker == Head(data)
           contract == ticker.contract
           s1 == check_trading_opportunities(
                   [s EXCEPT !.tickers = Put(@, contract,
                                             ParseTicker(ticker))],
                   contract)
       IN on_ticker_message_all(s1, Tail(data))

RECURSIVE on_ticker_message(_, _)
on_ticker_message(s, data) ==
  IF data = <<>>
  THEN s
  ELSE LET ticker == Head(data)
           contract == ticker.contract
           s1 == IF contract \in Contracts
                 THEN check_trading_opportunities(
                        [s EXCEPT !.tickers = Put(@, contract,
                                                  ParseTicker(ticker))],
                        contract)
                 ELSE s
       IN on_ticker_message(s1, Tail(data))

\* ------------------------------------------------------------------ frames
\* an inbound frame: a futures.tickers update carrying one ticker or a list
\* of tickers, or a frame that on_message only logs (a subscribe
\* acknowledgement, an order or trade update, a frame that is not JSON)
TickerLists == UNION {[1..n -> TickerEvents] : n \in 1..MaxFrameLen}

Frames ==
  [kind : {"tickers"}, data : TickerLists]
  \cup [kind : {"subscribe_ack", "orders", "trades", "bad_json"},
        data : {<<>>}]

\* on_message stopping the session on a frame that is not JSON
on_message_crash(s, frame) ==
  IF frame.kind = "tickers" THEN on_ticker_message(s, frame.data)
  ELSE IF frame.kind = "bad_json" THEN stop_trading(s)
  ELSE s

on_message(s, frame) ==
  IF frame.kind = "tickers" THEN on_ticker_message(s, frame.data) ELSE s

\* --------------------------------------------------------------- the state
NoArg == [contract |-> "", current_price |-> 0, entry_price |-> 0]
NoRet == [ok |-> FALSE, reason |-> "", val |-> <<0, 1>>]

ContractList == <<"c1", "c2">>

Init ==
  /\ trade_amount \in 1..MaxAmount
  /\ max_trades \in 1..MaxTradesBound
  /\ spread_threshold \in Thresholds
  /\ current_position = EmptyDict
  /\ trade_count = 0
  /\ completed_trades = <<>>
  /\ is_running = FALSE
  /\ event = FALSE
  /\ tickers = EmptyDict
  /\ sock = "idle"
  /\ closeDelivered = FALSE
  /\ hb = "off"
  /\ sent = <<>>
  /\ lastOp = "init"
  /\ arg = NoArg
  /\ ret = NoRet
  /\ MonitorLoaded

\* the fields of self after a handler returned
Commit(s) ==
  /\ current_position' = s.current_position
  /\ trade_count' = s.trade_count
  /\ completed_trades' = s.completed_trades
  /\ is_running' = s.is_running
  /\ event' = s.event
  /\ tickers' = s.tickers
  /\ sock' = s.sock
  /\ sent' = s.sent

SubscribePayload(contract) == [NoPayload EXCEPT !.contract = contract]

RECURSIVE SubscribeTickers(_, _)
SubscribeTickers(s, cs) ==
  IF cs = <<>>
  THEN s
  ELSE SubscribeTickers(
         subscribe(s, "futures.tickers", SubscribePayload(Head(cs)),
                   FALSE).st,
         Tail(cs))

\* on_open subscribing to the private channels before the tickers
OnOpen_privatefirst ==
  /\ sock = "idle"
  /\ LET s0 == [Self EXCEPT !.sock = "up"]
         s1 == subscribe(s0, "futures.orders", NoPayload, TRUE).st
         s2 == subscribe(s1, "futures.usertrades", NoPayload, TRUE).st
         s3 == SubscribeTickers(s2, ContractList)
     IN Commit([s3 EXCEPT !.is_running = TRUE])
  /\ hb' = "wait"
  /\ lastOp' = "on_open"
  /\ UNCHANGED <<config, monitor, closeDelivered, arg, ret>>

\* on_open: the connection is established; subscribe, start the heartbeat
\* thread, then mark the session running
OnOpen ==
  /\ sock = "idle"
  /\ LET s0 == [Self EXCEPT !.sock = "up"]
         s1 == SubscribeTickers(s0, ContractList)
         s2 == subscribe(s1, "futures.orders", NoPayload, TRUE).st
         s3 == subscribe(s2, "futures.usertrades", NoPayload, TRUE).st
     IN Commit([s3 EXCEPT !.is_running = TRUE])
  /\ hb' = "wait"
  /\ lastOp' = "on_open"
  /\ UNCHANGED <<config, monitor, closeDelivered, arg, ret>>

\* on_message: one inbound frame, dispatched on the websocket thread, one
\* frame at a time.  Frames are admitted after the session stopped as well,
\* so that the is_running guard of check_trading_opportunities is exercised.
OnMessage(frame) ==
  /\ hb # "off"
  /\ Commit(on_message(Self, frame))
  /\ lastOp' = "on_message"
  /\ UNCHANGED <<config, monitor, closeDelivered, hb, arg, ret>>

\* KeyboardInterrupt out of run_forever: start_trading calls stop_trading
ExternalStop ==
  /\ ~closeDelivered
  /\ Commit(stop_trading(Self))
  /\ lastOp' = "stop_trading"
  /\ UNCHANGED <<config, monitor, closeDelivered, hb, arg, ret>>

\* the connection drops on the network side; sends raise from now on
SocketFail ==
  /\ sock = "up"
  /\ sock' = "broken"
  /\ sent' = <<>>
  /\ lastOp' = "socket_fail"
  /\ UNCHANGED <<config, monitor, current_position, trade_count,
                 completed_trades,
                 is_running, event, tickers, closeDelivered, hb, arg, ret>>

\* on_close marking the session running instead of stopped
OnClose_running ==
  /\ sock \in {"broken", "none"}
  /\ hb # "off"
  /\ ~closeDelivered
  /\ is_running' = TRUE
  /\ sock' = "none"
  /\ closeDelivered' = TRUE
  /\ sent' = <<>>
  /\ lastOp' = "on_close"
  /\ UNCHANGED <<config, monitor, current_position, trade_count,
                 completed_trades,
                 event, tickers, hb, arg, ret>>

\* on_close: run_forever tears the connection down and calls back
OnClose ==
  /\ sock \in {"broken", "none"}
  /\ hb # "off"
  /\ ~closeDelivered
  /\ is_running' = FALSE
  /\ sock' = "none"
  /\ closeDelivered' = TRUE
  /\ sent' = <<>>
  /\ lastOp' = "on_close"
  /\ UNCHANGED <<config, monitor, current_position, trade_count,
                 completed_trades,
                 event, tickers, hb, arg, ret>>

\* _send_ping, first half of a round: the wait on the event, then the
\* websocket ping when a socket is there
TransportPing == [channel |-> "ws.ping", event |-> "", payload |-> NoPayload,
                  auth |-> FALSE]

\* _send_ping marking the session stopped when the ping fails
SendPingWake_stops ==
  /\ hb = "wait"
  /\ IF event
     THEN hb' = "exit" /\ sent' = <<>> /\ UNCHANGED is_running
     ELSE IF sock = "up"
     THEN hb' = "pinged" /\ sent' = <<TransportPing>> /\ UNCHANGED is_running
     ELSE IF sock = "broken"
     THEN hb' = "exit" /\ sent' = <<>> /\ is_running' = FALSE
     ELSE hb' = "wait" /\ sent' = <<>> /\ UNCHANGED is_running
  /\ lastOp' = "send_ping"
  /\ UNCHANGED <<config, monitor, current_position, trade_count,
                 completed_trades,
                 event, tickers, sock, closeDelivered, arg, ret>>

SendPingWake ==
  /\ hb = "wait"
  /\ IF event
     THEN hb' = "exit" /\ sent' = <<>>
     ELSE IF sock = "up"
     THEN hb' = "pinged" /\ sent' = <<TransportPing>>
     ELSE IF sock = "broken"
     THEN hb' = "exit" /\ sent' = <<>>
     ELSE hb' = "wait" /\ sent' = <<>>
  /\ lastOp' = "send_ping"
  /\ UNCHANGED <<config, monitor, current_position, trade_count,
                 completed_trades,
                 is_running, event, tickers, sock, closeDelivered, arg, ret>>

\* _send_ping sending futures.ping with the auth block
SendPingRequest_auth ==
  /\ hb = "pinged"
  /\ LET r == request(Self, "futures.ping", "", NoPayload, TRUE)
     IN /\ sent' = r.st.sent
        /\ hb' = IF r.raised THEN "exit" ELSE "wait"
  /\ lastOp' = "send_ping"
  /\ UNCHANGED <<config, monitor, current_position, trade_count,
                 completed_trades,
                 is_running, event, tickers, sock, closeDelivered, arg, ret>>

\* _send_ping, second half of a round: the futures.ping request
SendPingRequest ==
  /\ hb = "pinged"
  /\ LET r == request(Self, "futures.ping", "", NoPayload, FALSE)
     IN /\ sent' = r.st.sent
        /\ hb' = IF r.raised THEN "exit" ELSE "wait"
  /\ lastOp' = "send_ping"
  /\ UNCHANGED <<config, monitor, current_position, trade_count,
                 completed_trades,
                 is_running, event, tickers, sock, closeDelivered, arg, ret>>

Next ==
  \/ OnOpen
  \/ \E frame \in Frames : OnMessage(frame)
  \/ ExternalStop
  \/ SocketFail
  \/ OnClose
  \/ SendPingWake
  \/ SendPingRequest

Spec == Init /\ [][Next]_vars


\* ------------------------------------------- the two threads at the socket
\* The same session with every socket send split into the call and its
\* return.  The websocket thread runs the handlers; while it is inside the
\* first ws.send of a dispatch, lastOp is "ws.send" and arg holds the frame
\* being dispatched.  The heartbeat thread is at "pinging" inside
\* ws.sock.ping() and at "requesting" inside the ws.send of futures.ping.
\* The source takes no lock around either call.
InSend == "ws.send"

SendFrames == {f \in Frames : Len(f.data) <= 1}

\* a dispatch that reaches no send
DispatchQuiet(frame) ==
  /\ lastOp # InSend
  /\ on_message(Self, frame).sent = <<>>
  /\ OnMessage(frame)

\* a dispatch arrives at its first ws.send
DispatchEnterSend(frame) ==
  /\ lastOp # InSend
  /\ hb # "off"
  /\ on_message(Self, frame).sent # <<>>
  /\ lastOp' = InSend
  /\ arg' = frame
  /\ sent' = <<>>
  /\ UNCHANGED <<config, monitor, current_position, trade_count,
                 completed_trades,
                 is_running, event, tickers, sock, closeDelivered, hb, ret>>

\* the send returns (or raises) and the handler runs to its end
DispatchReturn ==
  /\ lastOp = InSend
  /\ Commit(on_message(Self, arg))
  /\ lastOp' = "on_message"
  /\ arg' = NoArg
  /\ UNCHANGED <<config, monitor, closeDelivered, hb, ret>>

\* _send_ping: event.wait(10) times out and the thread calls ws.sock.ping()
HeartbeatWake ==
  /\ hb = "wait"
  /\ hb' = IF event THEN "exit"
           ELSE IF sock \in {"up", "broken"} THEN "pinging"
           ELSE "wait"
  /\ sent' = <<>>
  /\ UNCHANGED <<config, monitor, current_position, trade_count,
                 completed_trades,
                 is_running, event, tickers, sock, closeDelivered, lastOp,
                 arg, ret>>

\* ws.sock.ping() returns, or raises and ends the loop
HeartbeatPingReturn ==
  /\ hb = "pinging"
  /\ IF sock = "up"
     THEN hb' = "pinged" /\ sent' = <<TransportPing>>
     ELSE hb' = "exit" /\ sent' = <<>>
  /\ UNCHANGED <<config, monitor, current_position, trade_count,
                 completed_trades,
                 is_running, event, tickers, sock, closeDelivered, lastOp,
                 arg, ret>>

\* _request("futures.ping") calls ws.send
HeartbeatEnterRequest ==
  /\ hb = "pinged"
  /\ hb' = "requesting"
  /\ sent' = <<>>
  /\ UNCHANGED <<config, monitor, current_position, trade_count,
                 completed_trades,
                 is_running, event, tickers, sock, closeDelivered, lastOp,
                 arg, ret>>

\* that ws.send returns, or raises and ends the loop
HeartbeatRequestReturn ==
  /\ hb = "requesting"
  /\ LET r == request(Self, "futures.ping", "", NoPayload, FALSE)
     IN /\ sent' = r.st.sent
        /\ hb' = IF r.raised THEN "exit" ELSE "wait"
  /\ UNCHANGED <<config, monitor, current_position, trade_count,
                 completed_trades,
                 is_running, event, tickers, sock, closeDelivered, lastOp,
                 arg, ret>>

NextSend ==
  \/ OnOpen
  \/ \E frame \in SendFrames : DispatchQuiet(frame)
  \/ \E frame \in SendFrames : DispatchEnterSend(frame)
  \/ DispatchReturn
  \/ lastOp # InSend /\ ExternalStop
  \/ lastOp # InSend /\ SocketFail
  \/ lastOp # InSend /\ OnClose
  \/ HeartbeatWake
  \/ HeartbeatPingReturn
  \/ HeartbeatEnterRequest
  \/ HeartbeatRequestReturn

SpecSend == Init /\ [][NextSend]_vars

\* ------------------------------------------------ the dispatched frames
\* The websocket thread alone, with the frame on_message was called with
\* kept in arg, so that a step can be related to the frame that caused it.
\* The frames are those of SendFrames: one ticker per futures.tickers update.
Dispatch(frame) ==
  /\ hb # "off"
  /\ Commit(on_message(Self, frame))
  /\ lastOp' = "on_message"
  /\ arg' = frame
  /\ UNCHANGED <<config, monitor, closeDelivered, hb, ret>>

NextDispatch ==
  \/ OnOpen
  \/ \E frame \in SendFrames : Dispatch(frame)
  \/ ExternalStop
  \/ SocketFail
  \/ OnClose

SpecDispatch == Init /\ [][NextDispatch]_vars

\* ------------------------------------------------- the function harness
\* The decision functions applied to an object whose fields are drawn from
\* bounded sets, as a unit test would set them up.
FnPositions ==
  {EmptyDict} \cup
  { "c1" :> [size |-> sz, entry_price |-> e] :
      sz \in 1..MaxAmount, e \in FnEntryVals }

FnTickers ==
  {EmptyDict} \cup
  { "c1" :> [last |-> 10000, bid |-> b, ask |-> a] :
      b \in FnBidVals, a \in FnAskVals }

InitFn ==
  /\ trade_amount \in 1..MaxAmount
  /\ max_trades \in 1..MaxTradesBound
  /\ spread_threshold \in FnThresholds
  /\ current_position \in FnPositions
  /\ trade_count \in 0..max_trades
  /\ completed_trades = <<>>
  /\ is_running = TRUE
  /\ event = FALSE
  /\ tickers \in FnTickers
  /\ sock = "up"
  /\ closeDelivered = FALSE
  /\ hb = "wait"
  /\ sent = <<>>
  /\ lastOp = "init"
  /\ arg = NoArg
  /\ ret = NoRet
  /\ MonitorLoaded

object == <<config, monitor, current_position, trade_count,
                 completed_trades,
            is_running, event, tickers, sock, closeDelivered, hb, sent>>

CallSpread(current_price, entry_price) ==
  /\ ret' = [ok |-> TRUE, reason |-> "",
             val |-> calculate_spread_percentage(current_price, entry_price)]
  /\ arg' = [contract |-> "", current_price |-> current_price,
             entry_price |-> entry_price]
  /\ lastOp' = "calculate_spread_percentage"
  /\ UNCHANGED object

CallShouldBuy(contract) ==
  /\ LET r == should_place_buy_order(Self, contract)
     IN ret' = [ok |-> r.ok, reason |-> r.reason, val |-> <<0, 1>>]
  /\ arg' = [NoArg EXCEPT !.contract = contract]
  /\ lastOp' = "should_place_buy_order"
  /\ UNCHANGED object

CallShouldSell(contract) ==
  /\ LET r == should_place_sell_order(Self, contract)
     IN ret' = [ok |-> r.ok, reason |-> r.reason, val |-> <<0, 1>>]
  /\ arg' = [NoArg EXCEPT !.contract = contract]
  /\ lastOp' = "should_place_sell_order"
  /\ UNCHANGED object

NextFn ==
  \/ \E cur \in FnBidVals, e \in FnEntryVals : CallSpread(cur, e)
  \/ \E c \in Contracts : CallShouldBuy(c)
  \/ \E c \in Contracts : CallShouldSell(c)

SpecFn == InitFn /\ [][NextFn]_vars

\* --------------------------------------------------- the ledger harness
\* execute_buy_order and execute_sell_order called directly, on an object
\* holding at most one Position and one cached ticker.
LedgerEntryVals == {9990, 10000}
LedgerBidVals == {0, 9995}

LedgerPositions ==
  {EmptyDict} \cup
  { "c1" :> [size |-> sz, entry_price |-> e] :
      sz \in 1..MaxAmount, e \in LedgerEntryVals }

LedgerTickers ==
  {EmptyDict} \cup
  { "c1" :> [last |-> 10000, bid |-> b, ask |-> 10001] :
      b \in LedgerBidVals }

InitLedger ==
  /\ trade_amount \in 1..MaxAmount
  /\ max_trades \in 1..MaxTradesBound
  /\ spread_threshold \in Thresholds
  /\ current_position \in LedgerPositions
  /\ trade_count \in 0..max_trades
  /\ completed_trades = <<>>
  /\ is_running = TRUE
  /\ event = FALSE
  /\ tickers \in LedgerTickers
  /\ sock = "up"
  /\ closeDelivered = FALSE
  /\ hb = "wait"
  /\ sent = <<>>
  /\ lastOp = "init"
  /\ arg = NoArg
  /\ ret = NoRet
  /\ MonitorLoaded

\* execute_buy_order called directly on the object
CallExecuteBuy(contract) ==
  /\ LET r == execute_buy_order(Self, contract)
     IN /\ Commit(r.st)
        /\ ret' = [ok |-> r.ok, reason |-> "", val |-> <<0, 1>>]
  /\ arg' = [NoArg EXCEPT !.contract = contract]
  /\ lastOp' = "execute_buy_order"
  /\ UNCHANGED <<config, monitor, closeDelivered, hb>>

\* execute_sell_order called directly on the object; the harness stops
\* calling it once the history holds MaxTradesBound records
CallExecuteSell(contract) ==
  /\ Len(completed_trades) < MaxTradesBound
  /\ LET r == execute_sell_order(Self, contract)
     IN /\ Commit(r.st)
        /\ ret' = [ok |-> r.ok, reason |-> "", val |-> <<0, 1>>]
  /\ arg' = [NoArg EXCEPT !.contract = contract]
  /\ lastOp' = "execute_sell_order"
  /\ UNCHANGED <<config, monitor, closeDelivered, hb>>

NextLedger ==
  \/ \E c \in Contracts : CallExecuteBuy(c)
  \/ \E c \in Contracts : CallExecuteSell(c)

SpecLedger == InitLedger /\ [][NextLedger]_vars

\* ------------------------------------------- the price risk monitor
\* src/1105.py.  Prices are Python floats (IEEE 754 doubles).  A double is
\* <<m, e>>, the value m * 2^e with 2^52 <= m < 2^53; m is a two-limb
\* natural <<hi, lo>> = hi * 2^27 + lo, since the checker's integers have
\* 32 bits.  The arithmetic is exact for naturals below 2^57.
Limb == 134217728

BDouble(x) ==
  <<2 * x[1] + (IF 2 * x[2] >= Limb THEN 1 ELSE 0), (2 * x[2]) % Limb>>
BSucc(x) == IF x[2] + 1 = Limb THEN <<x[1] + 1, 0>> ELSE <<x[1], x[2] + 1>>
BLess(x, y) == x[1] < y[1] \/ (x[1] = y[1] /\ x[2] < y[2])
BLeq(x, y) == ~BLess(y, x)
BSub(x, y) ==
  IF x[2] >= y[2]
  THEN <<x[1] - y[1], x[2] - y[2]>>
  ELSE <<x[1] - y[1] - 1, x[2] + Limb - y[2]>>
BNat(n) == <<n \div Limb, n % Limb>>
BOdd(x) == x[2] % 2 = 1

RECURSIVE BShift(_, _)
BShift(x, k) == IF k = 0 THEN x ELSE BShift(BDouble(x), k - 1)

TwoTo53 == <<67108864, 0>>

\* n / d scaled by powers of two until d <= n < 2d
RECURSIVE ScaleDown(_, _, _)
ScaleDown(n, d, e) ==
  IF BLeq(BDouble(d), n) THEN ScaleDown(n, BDouble(d), e + 1) ELSE <<n, d, e>>

RECURSIVE ScaleUp(_, _, _)
ScaleUp(n, d, e) ==
  IF BLess(n, d) THEN ScaleUp(BDouble(n), d, e - 1) ELSE <<n, d, e>>

RECURSIVE Pow2(_)
Pow2(k) == IF k = 0 THEN 1 ELSE 2 * Pow2(k - 1)

\* the next k bits of the quotient rem / d by long division, as a number
\* below 2^k, with the remainder left
RECURSIVE QuotientBits(_, _, _)
QuotientBits(rem, d, k) ==
  IF k = 0
  THEN <<0, rem>>
  ELSE LET r2 == BDouble(rem)
           bit == BLeq(d, r2)
           rest == QuotientBits(IF bit THEN BSub(r2, d) ELSE r2, d, k - 1)
       IN <<(IF bit THEN Pow2(k - 1) ELSE 0) + rest[1], rest[2]>>

\* the double nearest to n / d * 2^e0 (ties to even), for naturals n, d > 0
RoundToDouble(n, d, e0) ==
  LET a == ScaleDown(n, d, e0)
      b == ScaleUp(a[1], a[2], a[3])
      hi == QuotientBits(BSub(b[1], b[2]), b[2], 25)
      lo == QuotientBits(hi[2], b[2], 27)
      q == <<Pow2(25) + hi[1], lo[1]>>
      twice == BDouble(lo[2])
      up == BLess(b[2], twice) \/ (twice = b[2] /\ BOdd(q))
      m == IF up THEN BSucc(q) ELSE q
  IN IF m = TwoTo53
     THEN <<<<TwoTo53[1] \div 2, 0>>, b[3] - 52 + 1>>
     ELSE <<m, b[3] - 52>>

\* float("<tenths / 10>"): the double nearest to a decimal with one
\* fractional digit, as in float(last_price_str) and in the mock literals
FloatOfTenths(t) == RoundToDouble(BNat(t), BNat(10), 0)

\* RISK_DROP_PERCENTAGE = 0.02
RISK_DROP_PERCENTAGE == RoundToDouble(BNat(2), BNat(100), 0)

PRICE_HISTORY_SECONDS == 3

FloatLess(x, y) == x[2] < y[2] \/ (x[2] = y[2] /\ BLess(x[1], y[1]))

\* x - y for doubles x > y > 0
FloatSub(x, y) ==
  RoundToDouble(BSub(BShift(x[1], x[2] - y[2]), y[1]), <<0, 1>>, y[2])

\* x / y for doubles x, y > 0
FloatDiv(x, y) == RoundToDouble(x[1], y[1], x[2] - y[2])

\* a sample of the window: the decimal the venue sent, in tenths, and the
\* float the script holds for it
Sample(t) == [dec |-> t, val |-> FloatOfTenths(t)]

\* deque(maxlen=3).append
DequeAppend(q, x) ==
  IF Len(q) = PRICE_HISTORY_SECONDS THEN Append(Tail(q), x) ELSE Append(q, x)

\* lines 113-126: whether the window now triggers the pause
RiskTriggered(history) ==
  /\ Len(history) = PRICE_HISTORY_SECONDS
  /\ LET price_3s_ago == history[1].val
         price_now == history[Len(history)].val
     IN /\ FloatLess(price_now, price_3s_ago)
        /\ ~FloatLess(FloatDiv(FloatSub(price_3s_ago, price_now),
                               price_3s_ago),
                      RISK_DROP_PERCENTAGE)

\* prices in tenths: the mock sequence of lines 29-37, and the prices the
\* venue may report in live mode
MockPrices == <<1000, 1001, 999, 998, 970, 971, 972>>
LivePrices == {97, 98, 99, 100, 490, 500}

None == <<>>

\* get_bybit_last_price: the values it can return, <<t>> or None
Fetched ==
  IF USE_MOCK_DATA
  THEN IF mock_price_iterator <= Len(MockPrices)
       THEN {<<MockPrices[mock_price_iterator]>>}
       ELSE {None}
  ELSE {<<t>> : t \in LivePrices} \cup {None}

\* the trader's variables, which the monitor script does not have
trader == <<config, current_position, trade_count, completed_trades,
            is_running, event, tickers, sock, closeDelivered, hb, sent, ret>>

\* one turn of the main loop with the monitor active: check_price_and_risk
CheckPriceAndRisk ==
  /\ monitor_is_running /\ ~is_paused_due_to_risk
  /\ \E current_price \in Fetched :
       /\ arg' = current_price
       /\ mock_price_iterator' =
            IF USE_MOCK_DATA /\ current_price # None
            THEN mock_price_iterator + 1
            ELSE mock_price_iterator
       /\ IF current_price = None
          THEN UNCHANGED <<price_history, is_paused_due_to_risk>>
          ELSE /\ price_history' =
                    DequeAppend(price_history, Sample(current_price[1]))
               /\ is_paused_due_to_risk' = RiskTriggered(price_history')
  /\ lastOp' = "check_price_and_risk"
  /\ UNCHANGED <<trader, USE_MOCK_DATA, monitor_is_running>>

\* one turn of the main loop while paused or stopped: it only prints
MainLoopWaiting ==
  /\ ~(monitor_is_running /\ ~is_paused_due_to_risk)
  /\ lastOp' = "waiting"
  /\ arg' = None
  /\ UNCHANGED <<trader, monitor>>

\* the 9:00 job
start_monitoring ==
  /\ monitor_is_running' = TRUE
  /\ is_paused_due_to_risk' = FALSE
  /\ price_history' = <<>>
  /\ lastOp' = "start_monitoring"
  /\ arg' = None
  /\ UNCHANGED <<trader, USE_MOCK_DATA, mock_price_iterator>>

\* the 18:00 job
stop_monitoring ==
  /\ monitor_is_running' = FALSE
  /\ lastOp' = "stop_monitoring"
  /\ arg' = None
  /\ UNCHANGED <<trader, USE_MOCK_DATA, is_paused_due_to_risk,
                 price_history, mock_price_iterator>>

\* the script started inside or outside the 9:00-18:00 window
InitMonitor ==
  /\ trade_amount = 1
  /\ max_trades = 1
  /\ spread_threshold \in Thresholds
  /\ current_position = EmptyDict
  /\ trade_count = 0
  /\ completed_trades = <<>>
  /\ is_running = FALSE
  /\ event = FALSE
  /\ tickers = EmptyDict
  /\ sock = "idle"
  /\ closeDelivered = FALSE
  /\ hb = "off"
  /\ sent = <<>>
  /\ lastOp = "init"
  /\ arg = None
  /\ ret = NoRet
  /\ USE_MOCK_DATA \in BOOLEAN
  /\ monitor_is_running \in BOOLEAN
  /\ is_paused_due_to_risk = FALSE
  /\ price_history = <<>>
  /\ mock_price_iterator = 1

NextMonitor ==
  \/ CheckPriceAndRisk
  \/ MainLoopWaiting
  \/ start_monitoring
  \/ stop_monitoring

SpecMonitor == InitMonitor /\ [][NextMonitor]_vars

\* ------------------------------------------------------------- properties
IsOrder(f) == f.channel = "futures.orders" /\ f.event = ""
IsBuy(f) == IsOrder(f) /\ f.payload.size > 0 /\ ~f.payload.close
IsClose(f) == IsOrder(f) /\ f.payload.close

BuysIn(q) == {i \in 1..Len(q) : IsBuy(q[i])}
ClosesIn(q) == {i \in 1..Len(q) : IsClose(q[i])}
OrdersIn(q) == {i \in 1..Len(q) : IsOrder(q[i])}

Open(c) == c \in DOMAIN current_position /\ current_position[c].size > 0

\* C1: current_position holds at most one open Position per instrument, and
\* no buy order is handed to the socket for an instrument while a Position
\* is open for it.
C1_NoDoubleEntry ==
  /\ DOMAIN current_position \subseteq Contracts
  /\ \A c \in DOMAIN current_position : current_position[c].size > 0
  /\ \A i \in BuysIn(sent) : ~sent[i].payload.held

\* a dispatch that bought and left the Position open
C1_Witness ==
  /\ lastOp = "on_message"
  /\ \E i \in BuysIn(sent) : Open(sent[i].payload.contract)

\* C2: trade_count never exceeds max_trades.
C2_CountWithinBudget == trade_count <= max_trades

\* the budget is used up while another instrument still has a Position
C2_Witness ==
  /\ trade_count = max_trades
  /\ \E c \in Contracts : Open(c)

\* C3: a running session has budget left, and every step other than an
\* external stop or a connection close leaves a running session running
\* exactly when trade_count is still below max_trades after it.
C3_StopsExactlyAtBudget ==
  /\ [](is_running => trade_count < max_trades)
  /\ [][(is_running /\ lastOp' \notin {"stop_trading", "on_close"})
          => (is_running' <=> trade_count' < max_trades)]_vars

\* a dispatch whose close used up the budget and stopped the session
C3_Witness ==
  /\ lastOp = "on_message"
  /\ ClosesIn(sent) # {}
  /\ trade_count = max_trades
  /\ ~is_running /\ event

\* C4: in every step trade_count grows by the number of closes completed in
\* that step (one per close), and by nothing else: buys, failed or
\* ineligible sells and the other handlers leave it alone.
C4_CountMovesOnlyOnClose ==
  [][/\ trade_count' = trade_count + Cardinality(ClosesIn(sent'))
     /\ (lastOp' # "on_message" => trade_count' = trade_count)]_vars

\* a dispatch that bought without closing
C4_Witness ==
  /\ lastOp = "on_message"
  /\ BuysIn(sent) # {}
  /\ ClosesIn(sent) = {}
  /\ trade_count = 0

\* C5: trade_count equals the number of records in completed_trades.
C5_CountIsHistoryLength == trade_count = Len(completed_trades)

C5_Witness == trade_count >= 1 /\ Len(completed_trades) >= 1

\* C6: once a started session is not running it stays not running, and no
\* order is sent and positions, trade_count and the history stay as they are.
C6_StoppedIsTerminal ==
  [][(sock # "idle" /\ ~is_running)
       => /\ ~is_running'
          /\ OrdersIn(sent') = {}
          /\ UNCHANGED <<current_position, trade_count,
                         completed_trades>>]_vars

\* a ticker frame dispatched after the stop, with a Position left open
C6_Witness ==
  /\ lastOp = "on_message"
  /\ ~is_running
  /\ sock = "none"
  /\ \E c \in Contracts : Open(c)

CalledSellOnOpen ==
  /\ lastOp = "should_place_sell_order"
  /\ Open(arg.contract)
  /\ arg.contract \in DOMAIN tickers
  /\ tickers[arg.contract].bid > 0

\* C7: with an open Position (entry price > 0) and a cached bid > 0,
\* should_place_sell_order is eligible exactly when
\* |bid - entry| / entry * 100 <= threshold * 100, on either side of the
\* entry price; entry 100 / bid 99.95 / threshold 0.0005 is eligible and
\* bid 99.90 is not (reason: waiting).
C7_SellIffWithinThreshold ==
  (CalledSellOnOpen /\ current_position[arg.contract].entry_price > 0)
  => LET entry == current_position[arg.contract].entry_price
         bid == tickers[arg.contract].bid
     IN \* the inequality, multiplied by entry * ThresholdScale / 100
        /\ ret.ok <=> (Abs(bid - entry) * ThresholdScale
                         <= spread_threshold * entry)
        /\ (entry = 10000 /\ bid = 9995 /\ spread_threshold = 5) => ret.ok
        /\ (entry = 10000 /\ bid = 9990 /\ spread_threshold = 5)
             => (~ret.ok /\ ret.reason = "waiting")

\* the boundary case, evaluated
C7_Witness ==
  /\ CalledSellOnOpen
  /\ current_position[arg.contract].entry_price = 10000
  /\ tickers[arg.contract].bid = 9995
  /\ spread_threshold = 5
  /\ ret.ok

\* C8: for every entry price <= 0, calculate_spread_percentage returns 100.
C8_SentinelIs100 ==
  (lastOp = "calculate_spread_percentage" /\ arg.entry_price <= 0)
  => ret.val = <<100, 1>>

\* C9: with an open Position whose entry price is <= 0 and a bid > 0,
\* should_place_sell_order is never eligible.
C9_NonPositiveEntryNeverSells ==
  (CalledSellOnOpen /\ current_position[arg.contract].entry_price <= 0)
  => ~ret.ok

BuyCondition(c) ==
  /\ ~Open(c)
  /\ trade_count < max_trades
  /\ c \in DOMAIN tickers
  /\ tickers[c].ask > 0

\* C10: should_place_buy_order is eligible exactly when the instrument has
\* no open Position, trade_count < max_trades, a ticker is cached and its
\* ask is > 0; the call changes no state.
C10_BuyIffFlatBudgetAndAsk ==
  /\ [](lastOp = "should_place_buy_order"
          => (ret.ok <=> BuyCondition(arg.contract)))
  /\ [][lastOp' = "should_place_buy_order" => UNCHANGED object]_vars

\* an eligible and an ineligible outcome for a cached ask
C10_Witness ==
  /\ lastOp = "should_place_buy_order"
  /\ arg.contract \in DOMAIN tickers
  /\ tickers[arg.contract].ask <= 0
  /\ ~Open(arg.contract)
  /\ trade_count < max_trades
  /\ ~ret.ok



\* the scenario: a fresh running session with max_trades = 1 and threshold
\* 0.0005; first a ticker with last = 100.00 (cached with bid 99.99 and ask
\* 100.01), then a ticker with bid = 100.00
FreshSession ==
  /\ is_running /\ sock = "up"
  /\ max_trades = 1 /\ spread_threshold = 5
  /\ tickers = EmptyDict /\ current_position = EmptyDict
  /\ trade_count = 0 /\ completed_trades = <<>>

ScenarioFirst(c) ==
  [kind |-> "tickers",
   data |-> <<[contract |-> c, last |-> 10000, bid |-> <<>>, ask |-> <<>>]>>]

ScenarioSecond(c) ==
  [kind |-> "tickers",
   data |-> <<[contract |-> c, last |-> 10000, bid |-> <<10000>>,
               ask |-> <<>>]>>]

AfterFirst(c) == on_message(Self, ScenarioFirst(c))
AfterSecond(c) ==
  on_message([AfterFirst(c) EXCEPT !.sent = <<>>], ScenarioSecond(c))

ScenarioRecord(c, entry, exit) ==
  [contract |-> c, entry_price |-> entry, exit_price |-> exit,
   size |-> trade_amount, profit |-> (exit - entry) * trade_amount,
   profit_pct |-> Frac(Abs(exit - entry) * 100, entry)]

OrderFrame(c, size, close, held) ==
  [channel |-> "futures.orders", event |-> "", auth |-> TRUE,
   payload |-> [contract |-> c, size |-> size, price |-> 0, tif |-> "IOC",
                close |-> close, reduce_only |-> close, held |-> held]]

\* self after the cache update of a ticker event, before the decisions
Cached(t) == [Self EXCEPT !.tickers = Put(@, t.contract, ParseTicker(t))]

IsPrefix(p, q) == Len(p) <= Len(q) /\ SubSeq(q, 1, Len(p)) = p

\* C13: a completed close sends one order of size -(position size) with
\* close and reduce_only set, appends exactly one record (entry price of the
\* Position, exit price = cached bid, size of the Position, profit =
\* (exit - entry) * size), and removes the Position; records already in the
\* history are never modified or removed.
C13_CloseRecordsTrade ==
  /\ [](\A c \in Contracts :
         LET r == execute_sell_order(Self, c)
         IN r.ok =>
              LET pos == current_position[c]
                  rec == r.st.completed_trades[Len(completed_trades) + 1]
              IN /\ r.st.sent = <<OrderFrame(c, -pos.size, TRUE, TRUE)>>
                 /\ Len(r.st.completed_trades) = Len(completed_trades) + 1
                 /\ IsPrefix(completed_trades, r.st.completed_trades)
                 /\ rec.contract = c
                 /\ rec.entry_price = pos.entry_price
                 /\ rec.exit_price = tickers[c].bid
                 /\ rec.size = pos.size
                 /\ rec.profit = (rec.exit_price - rec.entry_price) * rec.size
                 /\ r.st.current_position = Del(current_position, c))
  /\ [][IsPrefix(completed_trades, completed_trades')]_vars

\* a second close, appended behind the first record
C13_Witness ==
  /\ lastOp = "on_message"
  /\ ClosesIn(sent) # {}
  /\ Len(completed_trades) = 2
  /\ completed_trades[2].exit_price = tickers[completed_trades[2].contract].bid


\* C14: execute_buy_order called for an instrument that has an open Position
\* (with a valid entry price) fails and leaves current_position unchanged.
C14_OpenOnHeldFails ==
  [][(/\ lastOp' = "execute_buy_order"
      /\ Open(arg'.contract)
      /\ current_position[arg'.contract].entry_price > 0)
       => (~ret'.ok /\ current_position' = current_position)]_vars

\* C15: execute_sell_order called for an instrument with no Position returns
\* False, sends no order, and leaves current_position, completed_trades and
\* trade_count unchanged.
C15_CloseOnFlatFails ==
  [][(lastOp' = "execute_sell_order"
      /\ arg'.contract \notin DOMAIN current_position)
       => /\ ~ret'.ok
          /\ sent' = <<>>
          /\ UNCHANGED <<current_position, completed_trades,
                         trade_count>>]_vars

\* a close refused for the missing Position alone: the instrument has a
\* cached ticker with a valid bid and the socket is up
C15_Witness ==
  /\ lastOp = "execute_sell_order"
  /\ ~ret.ok
  /\ arg.contract \notin DOMAIN current_position
  /\ arg.contract \in DOMAIN tickers
  /\ tickers[arg.contract].bid > 0
  /\ sock = "up"


\* C16: the heartbeat thread and the websocket thread are never inside a
\* socket send at the same time.
C16_SendsExclusive ==
  ~(lastOp = InSend /\ hb \in {"pinging", "requesting"})


\* C17: every step of the heartbeat thread leaves tickers, current_position,
\* completed_trades, trade_count and is_running unchanged.
C17_HeartbeatTouchesOnlySocket ==
  [][lastOp' = "send_ping"
       => UNCHANGED <<tickers, current_position, completed_trades,
                      trade_count, is_running>>]_vars

\* a heartbeat step that handed a frame to the socket while a Position is open
C17_Witness ==
  /\ lastOp = "send_ping"
  /\ sent # <<>>
  /\ \E c \in Contracts : Open(c)

\* C18: once the session has been started and is_running is False, the
\* heartbeat thread has been signalled (the event is set) or has left its
\* loop.
C18_StoppedSignalsHeartbeat ==
  (hb # "off" /\ ~is_running) => (event \/ hb = "exit")

StopFields(s) ==
  <<s.is_running, s.event, s.sock, s.current_position, s.trade_count,
    s.completed_trades>>

\* C19: stop_trading applied a second time gives the state the first
\* application gave, and a stop_trading that runs after an earlier one
\* changes none of is_running, event, the socket, current_position,
\* trade_count and completed_trades.
C19_StopIdempotent ==
  /\ [](StopFields(stop_trading(stop_trading(Self)))
          = StopFields(stop_trading(Self)))
  /\ [][(event /\ lastOp' = "stop_trading")
          => UNCHANGED <<is_running, event, sock, current_position,
                         trade_count, completed_trades>>]_vars

\* an external stop after the budget stop, with a Position of the other
\* instrument still open
C19_Witness ==
  /\ lastOp = "stop_trading"
  /\ trade_count = max_trades
  /\ \E c \in Contracts : Open(c)
  /\ ~is_running /\ event /\ sock = "none"

IsPing(f) == f.channel \in {"ws.ping", "futures.ping"}

\* C20: a futures.ping request is sent only by the step that follows a
\* successful websocket ping of the same round, and without the auth block;
\* a websocket ping that fails ends the heartbeat thread, and a thread that
\* has ended sends no ping of either kind again.
C20_PingOrderAndTermination ==
  /\ [](\A i \in 1..Len(sent) :
          sent[i].channel = "futures.ping" => ~sent[i].auth)
  /\ [][(\E i \in 1..Len(sent') : sent'[i].channel = "futures.ping")
          => (hb = "pinged" /\ lastOp' = "send_ping")]_vars
  /\ [][(hb # "pinged" /\ hb' = "pinged")
          => (hb = "wait" /\ sock = "up" /\ sent' = <<TransportPing>>)]_vars
  /\ [][(lastOp' = "send_ping" /\ hb = "wait" /\ ~event /\ sock = "broken")
          => (hb' = "exit" /\ sent' = <<>>)]_vars
  /\ [][hb = "exit"
          => (hb' = "exit"
              /\ \A i \in 1..Len(sent') : ~IsPing(sent'[i]))]_vars

\* the futures.ping of a round has just been sent
C20_Witness ==
  /\ lastOp = "send_ping"
  /\ hb = "wait"
  /\ Len(sent) = 1
  /\ sent[1].channel = "futures.ping"


SubscribeFrame(channel, contract, auth) ==
  [channel |-> channel, event |-> "subscribe",
   payload |-> [NoPayload EXCEPT !.contract = contract], auth |-> auth]

\* the frames on_open is to send, in order
OpenFrames ==
  [i \in 1..(Len(ContractList) + 2) |->
     IF i <= Len(ContractList)
     THEN SubscribeFrame("futures.tickers", ContractList[i], FALSE)
     ELSE IF i = Len(ContractList) + 1
     THEN SubscribeFrame("futures.orders", "", TRUE)
     ELSE SubscribeFrame("futures.usertrades", "", TRUE)]

\* C21: on_open sends one unauthenticated futures.tickers subscribe per
\* configured contract, then an authenticated subscribe for futures.orders
\* and one for futures.usertrades, starts the heartbeat thread and only then
\* sets is_running; before on_open nothing is sent, cached or decided, and
\* no order is sent by a step taken before the heartbeat thread exists.
C21_OpenSubscribesThenRuns ==
  /\ [][lastOp' = "on_open"
          => /\ sent' = OpenFrames
             /\ hb = "off" /\ hb' = "wait"
             /\ ~is_running /\ is_running']_vars
  /\ [](hb = "off"
          => /\ ~is_running
             /\ sent = <<>>
             /\ tickers = EmptyDict
             /\ current_position = EmptyDict
             /\ trade_count = 0)
  /\ [][OrdersIn(sent') # {} => (hb # "off" /\ lastOp # "init")]_vars
  /\ \A c \in Contracts :
       Cardinality({i \in DOMAIN OpenFrames :
                      /\ OpenFrames[i].channel = "futures.tickers"
                      /\ OpenFrames[i].payload.contract = c}) = 1

\* the session just opened
C21_Witness ==
  /\ lastOp = "on_open"
  /\ is_running
  /\ hb = "wait"
  /\ Len(sent) = Len(ContractList) + 2
  /\ \A i \in 1..Len(sent) : sent[i].event = "subscribe"


UntrackedEvents == {t \in TickerEvents : t.contract \notin Contracts}

\* C22: a futures.tickers frame whose tickers are all of contracts outside
\* self.contracts changes none of tickers, current_position, trade_count,
\* completed_trades, is_running, and sends nothing; in a list, such a ticker
\* has no effect on the handling of the tickers around it; the cache never
\* holds an untracked contract.
C22_UntrackedIgnored ==
  /\ [][(/\ lastOp' = "on_message"
         /\ arg'.kind = "tickers"
         /\ \A i \in 1..Len(arg'.data) : arg'.data[i].contract \notin Contracts)
          => /\ UNCHANGED <<tickers, current_position, trade_count,
                            completed_trades, is_running, event, sock>>
             /\ sent' = <<>>]_vars
  /\ [](\A u \in UntrackedEvents, t \in TickerEvents :
          /\ on_ticker_message(Self, <<u, t>>) = on_ticker_message(Self, <<t>>)
          /\ on_ticker_message(Self, <<t, u>>) = on_ticker_message(Self, <<t>>))
  /\ [](DOMAIN tickers \subseteq Contracts)

\* an untracked ticker dispatched to a running session that could buy
C22_Witness ==
  /\ lastOp = "on_message"
  /\ arg.kind = "tickers"
  /\ arg.data[1].contract = Untracked
  /\ arg.data[1].last > 0
  /\ is_running /\ sock = "up"
  /\ trade_count < max_trades


\* the cached entry k is what the event t alone determines
TickerMatches(k, t) ==
  /\ DOMAIN k = {"last", "bid", "ask"}
  /\ k.last = t.last
  /\ IF t.bid = <<>> THEN k.bid * 10000 = t.last * 9999 ELSE k.bid = t.bid[1]
  /\ IF t.ask = <<>> THEN k.ask * 10000 = t.last * 10001 ELSE k.ask = t.ask[1]

TrackedEvents == {t \in TickerEvents : t.contract \in Contracts}

\* C23: after a futures.tickers frame, the cached ticker of every tracked
\* contract the frame names is determined by the frame's last event for it
\* alone (bid = last * 0.9999 and ask = last * 1.0001 where the event omits
\* them), and the cached tickers of all other contracts are as before.
C23_CacheReplacedWholesale ==
  /\ [][(lastOp' = "on_message" /\ arg'.kind = "tickers")
          => \A c \in Contracts :
               LET idx == {i \in 1..Len(arg'.data) :
                             arg'.data[i].contract = c}
               IN IF idx = {}
                  THEN /\ (c \in DOMAIN tickers') <=> (c \in DOMAIN tickers)
                       /\ c \in DOMAIN tickers => tickers'[c] = tickers[c]
                  ELSE /\ c \in DOMAIN tickers'
                       /\ TickerMatches(
                            tickers'[c],
                            arg'.data[CHOOSE i \in idx :
                                        \A j \in idx : j <= i])]_vars
  /\ [](\A t1 \in TrackedEvents, t2 \in TrackedEvents :
          LET k == on_ticker_message(Self, <<t1, t2>>).tickers
          IN /\ TickerMatches(k[t2.contract], t2)
             /\ t1.contract # t2.contract => TickerMatches(k[t1.contract], t1)
             /\ \A d \in DOMAIN tickers \ {t1.contract, t2.contract} :
                  k[d] = tickers[d])

\* a ticker without bid and ask replaced one entry; the other contract's
\* entry, cached from an event that carried a bid, is still there
C23_Witness ==
  /\ lastOp = "on_message"
  /\ arg.kind = "tickers"
  /\ arg.data[1].contract \in Contracts
  /\ arg.data[1].last = 10000
  /\ arg.data[1].bid = <<>>
  /\ tickers[arg.data[1].contract] =
       [last |-> 10000, bid |-> 9999, ask |-> 10001]
  /\ \E d \in DOMAIN tickers :
       d # arg.data[1].contract /\ tickers[d].bid = 9990


BadJson == [kind |-> "bad_json", data |-> <<>>]

\* C24: a frame that is not valid JSON changes none of tickers,
\* current_position, trade_count, completed_trades, is_running (nor the
\* event or the socket) and sends nothing, and any frame dispatched after it
\* is handled as it would have been without it.
C24_BadJsonDiscarded ==
  /\ [][(lastOp' = "on_message" /\ arg' = BadJson)
          => /\ UNCHANGED <<tickers, current_position, trade_count,
                            completed_trades, is_running, event, sock>>
             /\ sent' = <<>>]_vars
  /\ [](\A f \in SendFrames :
          on_message([on_message(Self, BadJson) EXCEPT !.sent = <<>>], f)
            = on_message(Self, f))

\* a frame that is not JSON reached a running session that holds a Position
C24_Witness ==
  /\ lastOp = "on_message"
  /\ arg = BadJson
  /\ is_running /\ sock = "up"
  /\ \E c \in Contracts : Open(c)


\* the channels whose frames carry the auth block in every frame sent
AuthTable(f, pingAuth) ==
  /\ f.channel = "futures.tickers" => ~f.auth
  /\ f.channel \in {"futures.orders", "futures.usertrades"} => f.auth
  /\ f.channel = "futures.ping" => (f.auth <=> pingAuth)

\* C25, as stated: every frame sent carries the auth block as the channel
\* table says, with the futures.ping heartbeat authenticated.
C25_AuthAsStated ==
  \A i \in 1..Len(sent) : AuthTable(sent[i], TRUE)

\* C25, amended: futures.tickers subscribes are unauthenticated, the
\* futures.orders and futures.usertrades subscribes and the futures.orders
\* order placement are authenticated, and the futures.ping heartbeat is
\* unauthenticated; the envelope _request sends has the auth block exactly
\* when auth_required is set.
C25_AuthAmended ==
  /\ \A i \in 1..Len(sent) : AuthTable(sent[i], FALSE)
  /\ sock = "up" =>
       \A a \in BOOLEAN :
         LET r == request(Self, "futures.ping", "", NoPayload, a)
         IN Len(r.st.sent) = 1 /\ (r.st.sent[1].auth <=> a)

\* the heartbeat request went out without the auth block while the session
\* has sent authenticated orders (a Position is open)
C25_Witness ==
  /\ sent # <<>>
  /\ sent[Len(sent)].channel = "futures.ping"
  /\ ~sent[Len(sent)].auth
  /\ \E c \in Contracts : Open(c)


\* C26: while the socket send raises, a ticker dispatch that reaches a buy
\* or a sell still updates the cache but creates and removes no Position,
\* appends no record, leaves trade_count and is_running unchanged and sends
\* nothing; execute_buy_order and execute_sell_order return False with self
\* unchanged.
C26_SendFailureAbsorbed ==
  /\ [][(lastOp' = "on_message" /\ arg'.kind = "tickers" /\ sock # "up")
          => /\ UNCHANGED <<current_position, trade_count, completed_trades,
                            is_running, event, sock>>
             /\ sent' = <<>>
             /\ \A i \in 1..Len(arg'.data) :
                  arg'.data[i].contract \in Contracts
                    => TickerMatches(tickers'[arg'.data[i].contract],
                                     arg'.data[i])]_vars
  /\ [](sock # "up" =>
          \A c \in DOMAIN tickers :
            /\ execute_buy_order(Self, c) = [st |-> Self, ok |-> FALSE]
            /\ execute_sell_order(Self, c) = [st |-> Self, ok |-> FALSE])

\* a running session with a broken socket took a ticker on which the sell
\* rule fires for its open Position: the close order could not be sent
C26_Witness ==
  /\ lastOp = "on_message"
  /\ arg.kind = "tickers"
  /\ is_running /\ sock = "broken"
  /\ Open(arg.data[1].contract)
  /\ should_place_sell_order(Self, arg.data[1].contract).ok


\* the 2% rule on the prices as the venue states them
DecimalDrop(history) ==
  /\ Len(history) = PRICE_HISTORY_SECONDS
  /\ history[Len(history)].dec < history[1].dec
  /\ (history[1].dec - history[Len(history)].dec) * 100 >= 2 * history[1].dec

\* check_price_and_risk sets the flag exactly when the window holds 3
\* samples, the newest is lower than the oldest and the drop is >= 2%
PauseExactlyAtTwoPercent ==
  [][(lastOp' = "check_price_and_risk" /\ arg' # None)
       => (is_paused_due_to_risk' <=> DecimalDrop(price_history'))]_vars

\* on the mock sequence none of the first four samples sets the flag, and
\* the fifth, taken with the second to fourth in the window, sets it
MockSequencePausesAtFifth ==
  /\ [](USE_MOCK_DATA /\ mock_price_iterator <= 5 => ~is_paused_due_to_risk)
  /\ [][(/\ USE_MOCK_DATA
         /\ lastOp' = "check_price_and_risk"
         /\ mock_price_iterator = 5 /\ mock_price_iterator' = 6
         /\ Len(price_history) = PRICE_HISTORY_SECONDS)
          => is_paused_due_to_risk']_vars

\* while the flag is set nothing is fetched until start_monitoring
NoFetchWhilePaused ==
  [][(is_paused_due_to_risk /\ lastOp' # "start_monitoring")
       => UNCHANGED <<price_history, mock_price_iterator,
                      is_paused_due_to_risk>>]_vars

\* C27: check_price_and_risk sets the risk-pause flag exactly when the
\* window holds 3 samples, the newest is lower than the oldest and
\* (oldest - newest) / oldest >= 2%; the mock sequence pauses on its fifth
\* sample and on none of the first four; once the flag is set no price is
\* fetched until start_monitoring resets it.
C27_RiskPause ==
  /\ PauseExactlyAtTwoPercent
  /\ MockSequencePausesAtFifth
  /\ NoFetchWhilePaused

\* the Positions a dispatch of one ticker opened for its contract: one when
\* the contract was flat before and is held after, or was flat before and
\* the dispatch appended the record of a close for it
PositionsOpened(before, after, c) ==
  IF c \in DOMAIN before.current_position
     /\ before.current_position[c].size > 0
  THEN 0
  ELSE IF c \in DOMAIN after.current_position
          /\ after.current_position[c].size > 0
  THEN 1
  ELSE Len(after.completed_trades) - Len(before.completed_trades)

WithinThreshold(k) ==
  (IF k.bid >= k.last THEN k.bid - k.last ELSE k.last - k.bid)
    * ThresholdScale <= spread_threshold * k.last

\* C29: within one ticker dispatch the sell evaluation runs after the buy
\* evaluation on the updated state: in a running session with the socket up
\* and budget remaining, one ticker of a flat tracked instrument with
\* last > 0, ask > 0 and |bid - last| / last within the threshold sends the
\* buy order and then the close order, records one completed trade,
\* increases trade_count by 1 and leaves the instrument flat.
C29_OpenAndCloseInOneDispatch ==
  (is_running /\ sock = "up" /\ trade_count < max_trades) =>
    \A t \in TickerEvents :
      LET c == t.contract
          k == ParseTicker(t)
          d == on_ticker_message(Self, <<t>>)
      IN (/\ c \in Contracts
          /\ c \notin DOMAIN current_position
          /\ k.last > 0 /\ k.ask > 0
          /\ WithinThreshold(k)) =>
           /\ d.sent = <<OrderFrame(c, trade_amount, FALSE, FALSE),
                         OrderFrame(c, -trade_amount, TRUE, TRUE)>>
           /\ d.trade_count = trade_count + 1
           /\ c \notin DOMAIN d.current_position
           /\ Len(d.completed_trades) = Len(completed_trades) + 1
           /\ d.completed_trades[Len(d.completed_trades)].contract = c
           /\ d.completed_trades[Len(d.completed_trades)].entry_price = k.last
           /\ d.completed_trades[Len(d.completed_trades)].exit_price = k.bid

\* a dispatch of one ticker bought and closed its instrument, with budget
\* left afterwards: the session keeps running and the instrument is flat
C29_Witness ==
  /\ lastOp = "on_message"
  /\ arg.kind = "tickers"
  /\ Len(sent) = 2
  /\ IsBuy(sent[1]) /\ IsClose(sent[2])
  /\ sent[1].payload.contract = arg.data[1].contract
  /\ sent[2].payload.contract = arg.data[1].contract
  /\ arg.data[1].contract \notin DOMAIN current_position
  /\ trade_count = 1 /\ max_trades = 2
  /\ is_running

\* the session was stopped with its budget used up
StoppedAtBudget == ~is_running /\ trade_count >= max_trades

\* C30: when the session stops because trade_count reached max_trades, the
\* Positions open on the other tracked instruments are left exactly as they
\* are and no order is sent for them by the stopping dispatch; and once the
\* session is stopped at its budget no later frame closes or changes a
\* Position or sends an order.
C30_OpenPositionsSurviveStop ==
  /\ [][(is_running /\ ~is_running' /\ lastOp' = "on_message")
          => /\ trade_count' = max_trades
             /\ \A c \in Contracts \ {arg'.data[1].contract} :
                  /\ (c \in DOMAIN current_position')
                       = (c \in DOMAIN current_position)
                  /\ c \in DOMAIN current_position
                       => current_position'[c] = current_position[c]
             /\ \A i \in 1..Len(sent') :
                  sent'[i].payload.contract = arg'.data[1].contract]_vars
  /\ [][StoppedAtBudget
          => /\ UNCHANGED <<current_position, completed_trades, trade_count>>
             /\ ClosesIn(sent') = {} /\ BuysIn(sent') = {}]_vars
  /\ [](StoppedAtBudget =>
          \A frame \in SendFrames :
            on_message(Self, frame).current_position = current_position)

\* after the budget stop a ticker arrived on which the sell rule fires for a
\* Position that is still open: nothing was sent and the Position remains
C30_Witness ==
  /\ StoppedAtBudget
  /\ lastOp = "on_message"
  /\ arg.kind = "tickers"
  /\ Open(arg.data[1].contract)
  /\ should_place_sell_order(Self, arg.data[1].contract).ok
  /\ sent = <<>>

\* the Positions opened while a list of tickers is dispatched from state s:
\* one for every ticker on which the buy rule fires and execute_buy_order
\* returns True, which it does exactly when it has recorded the Position
RECURSIVE OpensIn(_, _)
OpensIn(s, data) ==
  IF data = <<>>
  THEN 0
  ELSE LET ticker == Head(data)
           contract == ticker.contract
           cached == [s EXCEPT !.tickers = Put(@, contract,
                                               ParseTicker(ticker))]
           bought == /\ contract \in Contracts
                     /\ cached.is_running
                     /\ should_place_buy_order(cached, contract).ok
                     /\ execute_buy_order(cached, contract).ok
       IN (IF bought THEN 1 ELSE 0)
            + OpensIn(on_ticker_message(s, <<ticker>>), Tail(data))

\* the Positions opened by the step that leads to the primed state
OpenedByStep ==
  IF lastOp' = "on_message" /\ arg'.kind = "tickers"
  THEN OpensIn(Self, arg'.data)
  ELSE 0

\* C31: the number of Positions opened so far equals trade_count plus the
\* number of Positions currently open: both are zero when the session is
\* constructed, and every step adds to trade_count plus the open Positions
\* exactly the Positions it opened; and every recorded Position, open or in
\* the history of closes, has size trade_amount and an entry price > 0.
C31_OpenedIsCountPlusOpen ==
  /\ [](lastOp = "init" => trade_count = 0 /\ current_position = EmptyDict)
  /\ [][trade_count' + Cardinality(DOMAIN current_position')
          = trade_count + Cardinality(DOMAIN current_position)
              + OpenedByStep]_vars
  /\ [](\A c \in DOMAIN current_position :
          /\ current_position[c].size = trade_amount
          /\ current_position[c].entry_price > 0)
  /\ [](\A i \in 1..Len(completed_trades) :
          /\ completed_trades[i].size = trade_amount
          /\ completed_trades[i].entry_price > 0)

\* two Positions have been opened: one was closed and counted, the other is
\* still open with the configured size and a positive entry price
C31_Witness ==
  /\ trade_count = 1 /\ Len(completed_trades) = 1
  /\ Cardinality(DOMAIN current_position) = 1
  /\ \A c \in DOMAIN current_position :
       /\ current_position[c].size = trade_amount
       /\ current_position[c].entry_price > 0
       /\ completed_trades[1].contract # c
  /\ is_running /\ lastOp = "on_message"

=============================================================================
